---------------------------- MODULE Spec2Model ----------------------------
(***************************************************************************)
(* Model of the energy-optimised voice engine of src/include/config.h:    *)
(* class EnergyOptimizedVoiceML (constructor, initialize, run and the     *)
(* private operations run calls), the I2S driver and the sleep/wake       *)
(* hardware it drives.                                                     *)
(*                                                                         *)
(* Time is millis() in milliseconds.  The engine record `eng` holds the   *)
(* fields of the object, `hw` the state of the hardware behind the API    *)
(* calls, `st` the function-local statics of run / should_process_audio,  *)
(* `io` what the latest step read from the environment and what it found  *)
(* on entry (the mode, the voice flag, the policy's two idle times),      *)
(* `cycles` the number of run() calls that returned since power-on, and   *)
(* `pc` the position of the single thread of control.  `env` is what the  *)
(* device is exposed to: the button, the sound at the microphone and the  *)
(* health of the I2S driver and of the interpreter.  `aux` holds the      *)
(* state of the free-standing helpers of the file, which setup() and      *)
(* loop() never call: they are exercised one at a time by UnitSpec.       *)
(***************************************************************************)
EXTENDS Integers, Sequences, FiniteSets, TLC

VARIABLES eng, hw, st, env, io, now, pc, cycles, aux

vars == <<eng, hw, st, env, io, now, pc, cycles, aux>>

---------------------------------------------------------------------------
(* Program constants.                                                      *)

AUDIO_SAMPLE_RATE == 16000
AUDIO_BUFFER_SIZE == 1024
INPUT_FEATURES == 1024
MIC_LOW_POWER_SAMPLE_RATE == 8000
MIC_NORMAL_SAMPLE_RATE == 16000
MIC_BUFFER_REDUCTION == 4
SILENCE_TIMEOUT_MS == 2000
DEEP_SLEEP_TIMEOUT_MS == 5000
INFERENCE_SKIP_COUNT == 3
SERIAL_SETTLE_MS == 500
BATTERY_PERIOD_MS == 30000
WATCHDOG_TIMEOUT_MS == 30000
REPORT_PERIOD_MS == 15000
SILENCE_MIC_OFF == 10
I2S_READ_TIMEOUT_MS == 50
DMA_BUF_COUNT == 2
DMA_BUF_LEN == 256
LIGHT_SLEEP_SILENCE == 5

\* VOICE_DETECTION_THRESHOLD, 0.002, in units of 1e-4 of mean-square energy.
VOICE_DETECTION_THRESHOLD == 20

\* EnergyMode: the ordinals of the enum.
ENERGY_ACTIVE == 0
ENERGY_BALANCED == 1
ENERGY_ECO == 2
ENERGY_ULTRA_ECO == 3
ENERGY_DEEP_SLEEP == 4

\* BatteryLevel: the ordinals of the enum.
BATTERY_FULL == 0
BATTERY_GOOD == 1
BATTERY_LOW == 2
BATTERY_CRITICAL == 3

\* uint8_t arithmetic of consecutive_silence and inference_skip_counter.
Uint8(n) == n % 256

---------------------------------------------------------------------------
(* Bounds of the model.                                                    *)

\* run() cycles are started while millis() is at most MaxTime; a boot whose
\* surroundings have not changed is followed up to LongTime, past the first
\* battery check of run().
MaxTime == 7700
LongTime == 30100

\* The environment changes at most MaxChanges times per boot, one of its
\* components at a time, at the first run() cycle at or after a multiple of
\* GridMs.
MaxChanges == 2
GridMs == 2500

\* UnitSpec: the number of consecutive calls of the inference gate.
MaxGateCalls == 7

\* UnitSpec: the number of calls of dynamic_optimization.
MaxOptCalls == 205

\* UnitSpec: the number of calls of EnergyCalibrator::add_sample.
MaxSamples == 103

\* UnitSpec: the length of the audio buffer (AUDIO_BUFFER_SIZE, scaled down).
BufLen == 4

\* QuietSpec: the surroundings fall quiet within this many run() cycles.
QuietBy == 6

---------------------------------------------------------------------------
(* Values read from the environment.                                       *)

\* adc1_get_raw readings (12 bit), one per battery band: 4.19 V, 3.87 V,
\* 3.38 V and 3.06 V.
AdcReadings == {2600, 2400, 2100, 1900}

\* What the microphone delivers: a full buffer of speech, a full buffer of
\* silence, or nothing before the read times out.
Sounds == {"voice", "silent", "error"}

\* Outcome of i2s_read for a sound: zero bytes when the read times out, the
\* whole buffer otherwise.
ReadResult(sound) == IF sound = "error" THEN "zero" ELSE "full"

\* Mean-square energy of the captured buffer, in units of 1e-4: 0.01 for
\* speech, 0 for silence.
Energy(sound) == IF sound = "voice" THEN 100 ELSE 0

\* Outcome of i2s_driver_install followed by i2s_set_pin.
I2SResults == {"ok", "install_fail", "pin_fail"}

\* Outcome of setup_energy_tensorflow's checks on the linked engine.
SetupResults == {"bad_version", "alloc_fail", "loaded"}

\* What `delete interpreter` does to a pointer that was never assigned.
UBResults == {"benign", "crash"}

NoInput ==
    [button |-> FALSE, adc |-> 0, read |-> "none", energy |-> 0,
     i2s |-> "none", invoke |-> "none", ub |-> "none", setup |-> "none",
     report |-> FALSE, report_due |-> FALSE, light_sleep |-> FALSE,
     process_gap |-> -1,
     mode_before |-> -1, voice_before |-> FALSE,
     idle_time |-> -1, voice_idle_time |-> -1]

---------------------------------------------------------------------------
(* The I2S driver behind i2s_driver_install / i2s_driver_uninstall.        *)

i2s_driver_uninstall(w) ==
    [w EXCEPT !.h.drv_installed = FALSE,
              !.h.i2s_calls = Append(w.h.i2s_calls, "uninstall")]

\* An install on a port that already holds a driver leaves that driver, and
\* its sample rate, in place.
i2s_driver_install(w, rate, res) ==
    IF res = "install_fail"
    THEN [w EXCEPT !.h.i2s_calls = Append(w.h.i2s_calls, "install")]
    ELSE [w EXCEPT !.h.i2s_calls = Append(w.h.i2s_calls, "install"),
                   !.h.drv_installed = TRUE,
                   !.h.drv_rate = IF w.h.drv_installed THEN w.h.drv_rate ELSE rate]

---------------------------------------------------------------------------
(* EnergyOptimizedVoiceML: private operations.  Each takes the world       *)
(* w = [e |-> engine fields, h |-> hardware] and the inputs `in` it may    *)
(* read, and returns the world it leaves.                                  *)

setup_adaptive_i2s(w, in) ==
    LET w1 == IF w.e.i2s_installed
              THEN [i2s_driver_uninstall(w) EXCEPT !.e.i2s_installed = FALSE]
              ELSE w
        w2 == i2s_driver_install(w1, w1.e.current_sample_rate, in.i2s)
    IN  IF in.i2s = "ok"
        THEN [w |-> [w2 EXCEPT !.e.i2s_installed = TRUE], ok |-> TRUE]
        ELSE [w |-> w2, ok |-> FALSE]

reconfigure_i2s(w, in) ==
    IF w.e.mic_active
    THEN [setup_adaptive_i2s([w EXCEPT !.e.mic_active = FALSE], in).w
            EXCEPT !.e.mic_active = TRUE]
    ELSE w

ensure_mic_active(w, in) ==
    IF w.e.mic_active THEN [w |-> w, ok |-> TRUE]
    ELSE LET r == setup_adaptive_i2s(w, in)
         IN  IF ~r.ok THEN [w |-> r.w, ok |-> FALSE]
             ELSE [w |-> [r.w EXCEPT !.e.mic_active = TRUE], ok |-> TRUE]

\* free() of the buffers and, with the inference engine linked, of the arena
\* and `delete interpreter`.  Deleting a pointer that was never assigned is
\* undefined: the build either survives it or traps.
cleanup_resources(w, in) ==
    LET w1 == IF w.e.mic_active /\ w.e.i2s_installed
              THEN [i2s_driver_uninstall(w) EXCEPT !.e.i2s_installed = FALSE]
              ELSE w
        w2 == [w1 EXCEPT !.e.mic_active = FALSE,
                         !.e.audio_buffer = "freed",
                         !.e.preprocessed_audio = "freed"]
    IN  IF ~w.h.tflite THEN w2
        ELSE LET w3 == [w2 EXCEPT !.e.tensor_arena =
                          IF w2.e.tensor_arena = "null" THEN "null" ELSE "freed"]
             IN  CASE w3.e.interpreter = "created" ->
                        [w3 EXCEPT !.e.interpreter = "deleted"]
                   [] w3.e.interpreter = "uninit" /\ in.ub = "crash" ->
                        [w3 EXCEPT !.h.halt = "crashed"]
                   [] OTHER -> w3

\* esp_deep_sleep_start() does not return.
esp_deep_sleep_start(w) ==
    IF w.h.halt = "run" THEN [w EXCEPT !.h.halt = "asleep"] ELSE w

ModeSampleRate(mode) ==
    CASE mode = ENERGY_ACTIVE -> AUDIO_SAMPLE_RATE
      [] mode = ENERGY_BALANCED -> MIC_NORMAL_SAMPLE_RATE
      [] mode = ENERGY_ECO -> MIC_LOW_POWER_SAMPLE_RATE
      [] OTHER -> MIC_LOW_POWER_SAMPLE_RATE

\* ModeBufferSize with the BALANCED row left at the full buffer.
ModeBufferSize_unhalved(mode) ==
    CASE mode = ENERGY_ACTIVE -> AUDIO_BUFFER_SIZE
      [] mode = ENERGY_BALANCED -> AUDIO_BUFFER_SIZE
      [] mode = ENERGY_ECO -> AUDIO_BUFFER_SIZE \div 4
      [] OTHER -> AUDIO_BUFFER_SIZE \div 8

ModeBufferSize(mode) ==
    CASE mode = ENERGY_ACTIVE -> AUDIO_BUFFER_SIZE
      [] mode = ENERGY_BALANCED -> AUDIO_BUFFER_SIZE \div 2
      [] mode = ENERGY_ECO -> AUDIO_BUFFER_SIZE \div 4
      [] OTHER -> AUDIO_BUFFER_SIZE \div 8

ModePower(mode) ==
    CASE mode = ENERGY_ACTIVE -> 180
      [] mode = ENERGY_BALANCED -> 120
      [] mode = ENERGY_ECO -> 60
      [] OTHER -> 25

\* set_energy_mode without the early return on an unchanged mode.
set_energy_mode_always(w, mode, in) ==
    LET w1 == [w EXCEPT !.e.current_energy_mode = mode]
    IN  IF mode = ENERGY_DEEP_SLEEP
        THEN esp_deep_sleep_start(cleanup_resources(w1, in))
        ELSE LET w2 == [w1 EXCEPT
                          !.e.current_sample_rate = ModeSampleRate(mode),
                          !.e.current_buffer_size = ModeBufferSize(mode),
                          !.e.power_consumption_mw = ModePower(mode)]
             IN  IF w2.e.mic_active THEN reconfigure_i2s(w2, in) ELSE w2

set_energy_mode(w, mode, in) ==
    IF w.e.current_energy_mode = mode THEN w
    ELSE LET w1 == [w EXCEPT !.e.current_energy_mode = mode]
         IN  IF mode = ENERGY_DEEP_SLEEP
             THEN esp_deep_sleep_start(cleanup_resources(w1, in))
             ELSE LET w2 == [w1 EXCEPT
                               !.e.current_sample_rate = ModeSampleRate(mode),
                               !.e.current_buffer_size = ModeBufferSize(mode),
                               !.e.power_consumption_mw = ModePower(mode)]
                  IN  IF w2.e.mic_active THEN reconfigure_i2s(w2, in) ELSE w2

\* metrics.battery_voltage in units of 1e-4 V: raw * 3.3 * 2.0 / 4095.0.
BatteryVoltage(adc) == (adc * 33 * 2 * 1000) \div 4095

\* A threshold comparison that also accepts the threshold itself.
BatteryLevelOf_inclusive(voltage) ==
    IF voltage >= 40000 THEN BATTERY_FULL
    ELSE IF voltage >= 37000 THEN BATTERY_GOOD
    ELSE IF voltage >= 33000 THEN BATTERY_LOW
    ELSE BATTERY_CRITICAL

BatteryLevelOf(voltage) ==
    IF voltage > 40000 THEN BATTERY_FULL
    ELSE IF voltage > 37000 THEN BATTERY_GOOD
    ELSE IF voltage > 33000 THEN BATTERY_LOW
    ELSE BATTERY_CRITICAL

\* update_battery_status without the branch for a LOW level.
update_battery_status_no_low(w, in) ==
    LET v == BatteryVoltage(in.adc)
        w1 == [w EXCEPT !.e.battery_voltage = v,
                        !.e.battery_level = BatteryLevelOf(v)]
    IN  IF w1.e.battery_level = BATTERY_CRITICAL
        THEN set_energy_mode(w1, ENERGY_DEEP_SLEEP, in)
        ELSE w1

update_battery_status(w, in) ==
    LET v == BatteryVoltage(in.adc)
        w1 == [w EXCEPT !.e.battery_voltage = v,
                        !.e.battery_level = BatteryLevelOf(v)]
    IN  IF w1.e.battery_level = BATTERY_CRITICAL
        THEN set_energy_mode(w1, ENERGY_DEEP_SLEEP, in)
        ELSE IF w1.e.battery_level = BATTERY_LOW
        THEN set_energy_mode(w1, ENERGY_ULTRA_ECO, in)
        ELSE w1

\* manage_energy_modes whose voice branch does not step up to BALANCED.
manage_energy_modes_no_step_up(w, current_time, in) ==
    LET idle_time == current_time - w.e.last_activity_time
        voice_idle_time == current_time - w.e.last_voice_time
    IN  IF in.button
        THEN [set_energy_mode(w, ENERGY_ACTIVE, in)
                EXCEPT !.e.last_activity_time = current_time]
        ELSE IF w.e.voice_detected
        THEN [w EXCEPT !.e.last_voice_time = current_time]
        ELSE IF voice_idle_time > DEEP_SLEEP_TIMEOUT_MS
        THEN IF w.e.battery_level <= BATTERY_LOW
             THEN set_energy_mode(w, ENERGY_DEEP_SLEEP, in)
             ELSE set_energy_mode(w, ENERGY_ULTRA_ECO, in)
        ELSE IF idle_time > SILENCE_TIMEOUT_MS
        THEN IF w.e.current_energy_mode < ENERGY_ECO
             THEN set_energy_mode(w, ENERGY_ECO, in)
             ELSE w
        ELSE w

\* manage_energy_modes whose button branch does not return: the adaptive
\* branches are evaluated after it.
manage_energy_modes_fall_through(w, current_time, in) ==
    LET idle_time == current_time - w.e.last_activity_time
        voice_idle_time == current_time - w.e.last_voice_time
        w0 == IF in.button
              THEN [set_energy_mode(w, ENERGY_ACTIVE, in)
                      EXCEPT !.e.last_activity_time = current_time]
              ELSE w
    IN  IF w0.e.voice_detected
        THEN LET w1 == [w0 EXCEPT !.e.last_voice_time = current_time]
             IN  IF w1.e.current_energy_mode > ENERGY_BALANCED
                 THEN set_energy_mode(w1, ENERGY_BALANCED, in)
                 ELSE w1
        ELSE IF voice_idle_time > DEEP_SLEEP_TIMEOUT_MS
        THEN IF w0.e.battery_level <= BATTERY_LOW
             THEN set_energy_mode(w0, ENERGY_DEEP_SLEEP, in)
             ELSE set_energy_mode(w0, ENERGY_ULTRA_ECO, in)
        ELSE IF idle_time > SILENCE_TIMEOUT_MS
        THEN IF w0.e.current_energy_mode < ENERGY_ECO
             THEN set_energy_mode(w0, ENERGY_ECO, in)
             ELSE w0
        ELSE w0

\* manage_energy_modes that tests the two timeouts before the voice flag.
manage_energy_modes_timeouts_first(w, current_time, in) ==
    LET idle_time == current_time - w.e.last_activity_time
        voice_idle_time == current_time - w.e.last_voice_time
    IN  IF in.button
        THEN [set_energy_mode(w, ENERGY_ACTIVE, in)
                EXCEPT !.e.last_activity_time = current_time]
        ELSE IF voice_idle_time > DEEP_SLEEP_TIMEOUT_MS
        THEN IF w.e.battery_level <= BATTERY_LOW
             THEN set_energy_mode(w, ENERGY_DEEP_SLEEP, in)
             ELSE set_energy_mode(w, ENERGY_ULTRA_ECO, in)
        ELSE IF idle_time > SILENCE_TIMEOUT_MS
        THEN IF w.e.current_energy_mode < ENERGY_ECO
             THEN set_energy_mode(w, ENERGY_ECO, in)
             ELSE w
        ELSE IF w.e.voice_detected
        THEN LET w1 == [w EXCEPT !.e.last_voice_time = current_time]
             IN  IF w1.e.current_energy_mode > ENERGY_BALANCED
                 THEN set_energy_mode(w1, ENERGY_BALANCED, in)
                 ELSE w1
        ELSE w

\* manage_energy_modes whose silence timeout sets ECO from any mode.
manage_energy_modes_always_eco(w, current_time, in) ==
    LET idle_time == current_time - w.e.last_activity_time
        voice_idle_time == current_time - w.e.last_voice_time
    IN  IF in.button
        THEN [set_energy_mode(w, ENERGY_ACTIVE, in)
                EXCEPT !.e.last_activity_time = current_time]
        ELSE IF w.e.voice_detected
        THEN LET w1 == [w EXCEPT !.e.last_voice_time = current_time]
             IN  IF w1.e.current_energy_mode > ENERGY_BALANCED
                 THEN set_energy_mode(w1, ENERGY_BALANCED, in)
                 ELSE w1
        ELSE IF voice_idle_time > DEEP_SLEEP_TIMEOUT_MS
        THEN IF w.e.battery_level <= BATTERY_LOW
             THEN set_energy_mode(w, ENERGY_DEEP_SLEEP, in)
             ELSE set_energy_mode(w, ENERGY_ULTRA_ECO, in)
        ELSE IF idle_time > SILENCE_TIMEOUT_MS
        THEN set_energy_mode(w, ENERGY_ECO, in)
        ELSE w

manage_energy_modes(w, current_time, in) ==
    LET idle_time == current_time - w.e.last_activity_time
        voice_idle_time == current_time - w.e.last_voice_time
    IN  IF in.button
        THEN [set_energy_mode(w, ENERGY_ACTIVE, in)
                EXCEPT !.e.last_activity_time = current_time]
        ELSE IF w.e.voice_detected
        THEN LET w1 == [w EXCEPT !.e.last_voice_time = current_time]
             IN  IF w1.e.current_energy_mode > ENERGY_BALANCED
                 THEN set_energy_mode(w1, ENERGY_BALANCED, in)
                 ELSE w1
        ELSE IF voice_idle_time > DEEP_SLEEP_TIMEOUT_MS
        THEN IF w.e.battery_level <= BATTERY_LOW
             THEN set_energy_mode(w, ENERGY_DEEP_SLEEP, in)
             ELSE set_energy_mode(w, ENERGY_ULTRA_ECO, in)
        ELSE IF idle_time > SILENCE_TIMEOUT_MS
        THEN IF w.e.current_energy_mode < ENERGY_ECO
             THEN set_energy_mode(w, ENERGY_ECO, in)
             ELSE w
        ELSE w

ProcessInterval(mode) ==
    CASE mode = ENERGY_ECO -> 200
      [] mode = ENERGY_ULTRA_ECO -> 500
      [] OTHER -> 100

\* Returns the verdict and the value the static last_audio_process is left at.
should_process_audio(w, current_time, last_audio_process) ==
    IF w.e.current_energy_mode = ENERGY_ACTIVE
    THEN [ok |-> TRUE, last |-> last_audio_process]
    ELSE IF current_time - last_audio_process
              >= ProcessInterval(w.e.current_energy_mode)
    THEN [ok |-> TRUE, last |-> current_time]
    ELSE [ok |-> FALSE, last |-> last_audio_process]

\* i2s_read on a port without a driver fails; otherwise the driver answers
\* with in.read.
ReadOutcome(w, in) ==
    IF ~w.h.drv_installed THEN "error" ELSE in.read

\* The time i2s_read blocks: nothing when the port has no driver; the whole
\* timeout when nothing arrives; otherwise as long as the samples that do
\* not fit the DMA buffers take to arrive at the driver's sample rate.
ReadTime(w, in) ==
    IF ~w.h.drv_installed THEN 0
    ELSE IF in.read \in {"error", "zero"} THEN I2S_READ_TIMEOUT_MS
    ELSE IF w.e.current_buffer_size <= DMA_BUF_COUNT * DMA_BUF_LEN THEN 0
    ELSE ((w.e.current_buffer_size - DMA_BUF_COUNT * DMA_BUF_LEN) * 1000)
            \div w.h.drv_rate

\* smart_audio_capture without the test of i2s_read's result.
smart_audio_capture_unchecked(w, in) ==
    LET r == ensure_mic_active(w, in)
    IN  IF ~r.ok THEN [w |-> r.w, ok |-> FALSE, ms |-> 0]
        ELSE [w |-> r.w, ok |-> TRUE, ms |-> ReadTime(r.w, in)]

\* The field ms is the time spent in i2s_read.
smart_audio_capture(w, in) ==
    LET r == ensure_mic_active(w, in)
    IN  IF ~r.ok THEN [w |-> r.w, ok |-> FALSE, ms |-> 0]
        ELSE IF ReadOutcome(r.w, in) \in {"error", "zero"}
        THEN [w |-> r.w, ok |-> FALSE, ms |-> ReadTime(r.w, in)]
        ELSE [w |-> r.w, ok |-> TRUE, ms |-> ReadTime(r.w, in)]

preprocess_audio_efficient(w, in) ==
    IF w.e.preprocessed_audio # "alloc" THEN [w |-> w, voice |-> FALSE]
    ELSE LET voice == in.energy > VOICE_DETECTION_THRESHOLD
             w1 == [w EXCEPT !.e.voice_detected = voice]
         IN  IF ~voice
             THEN LET w2 == [w1 EXCEPT !.e.consecutive_silence =
                                          Uint8(w1.e.consecutive_silence + 1)]
                  IN  IF w2.e.consecutive_silence > SILENCE_MIC_OFF
                      THEN LET w3 == [w2 EXCEPT !.e.mic_active = FALSE]
                           IN  [w |-> IF w3.e.i2s_installed
                                      THEN [i2s_driver_uninstall(w3)
                                              EXCEPT !.e.i2s_installed = FALSE]
                                      ELSE w3,
                                voice |-> FALSE]
                      ELSE [w |-> w2, voice |-> FALSE]
             ELSE [w |-> [w1 EXCEPT !.e.consecutive_silence = 0],
                   voice |-> TRUE]

\* should_run_inference that counts every pass, voiced or not.
should_run_inference_counting(w) ==
    IF w.e.current_energy_mode = ENERGY_ACTIVE THEN [w |-> w, ok |-> TRUE]
    ELSE LET c == Uint8(w.e.inference_skip_counter + 1)
         IN  IF c < INFERENCE_SKIP_COUNT
             THEN [w |-> [w EXCEPT !.e.inference_skip_counter = c], ok |-> FALSE]
             ELSE [w |-> [w EXCEPT !.e.inference_skip_counter = 0], ok |-> TRUE]

\* should_run_inference that lets the counter reach INFERENCE_SKIP_COUNT
\* before it answers true.
should_run_inference_late(w) ==
    IF w.e.current_energy_mode = ENERGY_ACTIVE THEN [w |-> w, ok |-> TRUE]
    ELSE LET c == IF ~w.e.voice_detected
                  THEN Uint8(w.e.inference_skip_counter + 1)
                  ELSE w.e.inference_skip_counter
         IN  IF ~w.e.voice_detected /\ c <= INFERENCE_SKIP_COUNT
             THEN [w |-> [w EXCEPT !.e.inference_skip_counter = c], ok |-> FALSE]
             ELSE [w |-> [w EXCEPT !.e.inference_skip_counter = 0], ok |-> TRUE]

should_run_inference(w) ==
    IF w.e.current_energy_mode = ENERGY_ACTIVE THEN [w |-> w, ok |-> TRUE]
    ELSE LET c == IF ~w.e.voice_detected
                  THEN Uint8(w.e.inference_skip_counter + 1)
                  ELSE w.e.inference_skip_counter
         IN  IF ~w.e.voice_detected /\ c < INFERENCE_SKIP_COUNT
             THEN [w |-> [w EXCEPT !.e.inference_skip_counter = c], ok |-> FALSE]
             ELSE [w |-> [w EXCEPT !.e.inference_skip_counter = 0], ok |-> TRUE]

\* Fails only when a loaded model's Invoke() fails.
run_energy_inference(w, in) ==
    IF w.h.tflite /\ w.e.model_loaded /\ in.invoke = "fail"
    THEN [w |-> w, ok |-> FALSE]
    ELSE [w |-> w, ok |-> TRUE]

\* With the inference engine linked: the arena check, the schema-version
\* check, the interpreter's construction and AllocateTensors.
setup_energy_tensorflow(w, in) ==
    IF w.e.tensor_arena # "alloc" THEN w
    ELSE IF in.setup = "bad_version" THEN w
    ELSE IF in.setup = "alloc_fail" THEN [w EXCEPT !.e.interpreter = "created"]
    ELSE [w EXCEPT !.e.interpreter = "created", !.e.model_loaded = TRUE]

setup_energy_efficient_pins(w) ==
    [w EXCEPT !.h.wake_armed = TRUE]

\* initialize(), after Serial.begin and delay(500).
initialize(w, in) ==
    LET w1 == update_battery_status(w, in)
    IN  IF w1.h.halt # "run" THEN w1
        ELSE LET w2 == setup_energy_efficient_pins(w1)
                 w3 == IF w2.h.tflite THEN setup_energy_tensorflow(w2, in) ELSE w2
             IN  set_energy_mode(w3, ENERGY_ULTRA_ECO, in)

\* The audio pipeline of run(): the world and the static last_audio_process
\* it leaves.
process_audio(w, current_time, last_audio_process, in) ==
    LET g == should_process_audio(w, current_time, last_audio_process)
    IN  IF ~g.ok THEN [w |-> w, last |-> g.last]
        ELSE LET c == smart_audio_capture(w, in)
             IN  IF ~c.ok THEN [w |-> c.w, last |-> g.last]
                 ELSE LET p == preprocess_audio_efficient(c.w, in)
                      IN  IF ~p.voice THEN [w |-> p.w, last |-> g.last]
                          ELSE LET s == should_run_inference(p.w)
                               IN  IF ~s.ok
                                   THEN [w |-> [s.w EXCEPT !.e.skipped_inferences = @ + 1],
                                         last |-> g.last]
                                   ELSE LET r == run_energy_inference(s.w, in)
                                        IN  IF ~r.ok THEN [w |-> r.w, last |-> g.last]
                                            ELSE [w |-> [r.w EXCEPT
                                                           !.e.total_inferences = @ + 1,
                                                           !.e.last_activity_time = current_time],
                                                  last |-> g.last]

\* print_energy_report without its first line.
print_energy_report_unguarded(w) == TRUE

\* Whether print_energy_report gets past its guard, evaluates the efficiency
\* quotient and prints.
print_energy_report(w) ==
    ~(w.e.total_inferences = 0 /\ w.e.skipped_inferences = 0)

\* adaptive_sleep: the time slept and whether it was a light sleep.
adaptive_sleep(w) ==
    CASE w.e.current_energy_mode = ENERGY_ACTIVE -> [ms |-> 5, light |-> FALSE]
      [] w.e.current_energy_mode = ENERGY_BALANCED -> [ms |-> 10, light |-> FALSE]
      [] w.e.current_energy_mode = ENERGY_ECO -> [ms |-> 50, light |-> FALSE]
      [] w.e.current_energy_mode = ENERGY_ULTRA_ECO ->
            [ms |-> 100,
             light |-> ~w.e.voice_detected
                       /\ w.e.consecutive_silence > LIGHT_SLEEP_SILENCE]
      [] OTHER -> [ms |-> 10, light |-> FALSE]

---------------------------------------------------------------------------
(* Free-standing helpers.  setup() and loop() call none of them.           *)

\* esp_task_wdt_init(30, true) and esp_task_wdt_add(NULL) at time t.
setup_energy_watchdog(h, t) ==
    [h EXCEPT !.wdt_armed = TRUE, !.wdt_fed = t]

\* esp_task_wdt_reset() at time t.
feed_energy_watchdog(h, t) ==
    IF h.wdt_armed THEN [h EXCEPT !.wdt_fed = t] ELSE h

OPT_RESTART_PERIOD == 100
OPT_HEAP_PERIOD == 50

\* dynamic_optimization with a restart request that returns to its caller.
dynamic_optimization_returning(o) ==
    LET c == o.optimization_counter + 1
    IN  [optimization_counter |-> c,
         restart |-> c % OPT_RESTART_PERIOD = 0,
         heap_check |-> c % OPT_HEAP_PERIOD = 0]

\* One call of dynamic_optimization on its static counter: the fields
\* restart and heap_check tell what the call did.  ESP.restart() does not
\* return, and the program it starts anew has the static back at 0.
dynamic_optimization(o) ==
    LET c == o.optimization_counter + 1
    IN  IF c % OPT_RESTART_PERIOD = 0
        THEN [optimization_counter |-> 0, restart |-> TRUE,
              heap_check |-> FALSE]
        ELSE [optimization_counter |-> c, restart |-> FALSE,
              heap_check |-> c % OPT_HEAP_PERIOD = 0]

\* sizeof(int16_t)
SAMPLE_BYTES == 2

MIN(a, b) == IF a < b THEN a ELSE b

\* Raw int16_t sample values and the active lengths of the buffer
\* (current_buffer_size, scaled down as BufLen is).
SampleValues == {-3, 0, 2}
CaptureSizes == {2, BufLen}

\* The audio buffer after i2s_read has stored bytes_read bytes of data in it;
\* an odd byte count leaves the last sample touched half written.
i2s_read(buf, data) ==
    [i \in DOMAIN buf |-> IF i <= Len(data) THEN data[i] ELSE buf[i]]

\* smart_audio_capture from i2s_read on, without the zero fill.
smart_audio_capture_no_fill(buf, size, result, bytes_read, data) ==
    LET read == i2s_read(buf, data)
        samples_read == bytes_read \div SAMPLE_BYTES
    IN  IF result # "ok" \/ bytes_read = 0
        THEN [buf |-> read, ok |-> FALSE, samples_read |-> 0]
        ELSE [buf |-> read, ok |-> TRUE, samples_read |-> samples_read]

\* smart_audio_capture from i2s_read on: the buffer, the return value and
\* the number of whole samples read.
smart_audio_capture_buffer(buf, size, result, bytes_read, data) ==
    LET read == i2s_read(buf, data)
        samples_read == bytes_read \div SAMPLE_BYTES
    IN  IF result # "ok" \/ bytes_read = 0
        THEN [buf |-> read, ok |-> FALSE, samples_read |-> 0]
        ELSE [buf |-> IF samples_read < size
                      THEN [i \in DOMAIN read |->
                              IF i > samples_read /\ i <= size
                              THEN 0 ELSE read[i]]
                      ELSE read,
              ok |-> TRUE, samples_read |-> samples_read]

\* The energy sum of preprocess_audio_efficient over the first n samples of
\* buf, in units of 1/32768^2.
RECURSIVE EnergySum(_, _)
EnergySum(buf, n) ==
    IF n = 0 THEN 0 ELSE EnergySum(buf, n - 1) + buf[n] * buf[n]

preprocess_energy(buf, size) == EnergySum(buf, MIN(size, INPUT_FEATURES))

\* The feature buffer preprocess_audio_efficient leaves for an audio buffer
\* with size active samples: half of each sample (in units of 1/65536, in
\* which half of sample / 32768 is the sample's own number), then zeros up
\* to the end; the buffer's length stands for INPUT_FEATURES.
preprocess_features(pre, buf, size) ==
    [i \in DOMAIN pre |-> IF i <= MIN(size, Len(pre)) THEN buf[i] ELSE 0]

\* The input tensor after run_energy_inference's copy loop.
copy_features(tensor, pre, size) ==
    [i \in DOMAIN tensor |->
        IF i <= MIN(Len(pre), size) THEN pre[i] ELSE tensor[i]]

CALIBRATION_SAMPLES == 100

\* Power samples in units of 0.01 mW: 25.0 mW and 180.0 mW.
PowerSamples == {2500, 18000}

\* EnergyCalibrator::add_sample without the test on the sample count.
add_sample_unbounded(c, consumption) ==
    LET sum == c.baseline_consumption + consumption
        n == c.calibration_samples + 1
    IN  IF n = CALIBRATION_SAMPLES
        THEN [baseline_consumption |-> sum \div CALIBRATION_SAMPLES,
              calibration_samples |-> n, calibrated |-> TRUE]
        ELSE [c EXCEPT !.baseline_consumption = sum,
                       !.calibration_samples = n]

\* EnergyCalibrator::add_sample.
add_sample(c, consumption) ==
    IF c.calibration_samples < CALIBRATION_SAMPLES
    THEN LET sum == c.baseline_consumption + consumption
             n == c.calibration_samples + 1
         IN  IF n = CALIBRATION_SAMPLES
             THEN [baseline_consumption |-> sum \div CALIBRATION_SAMPLES,
                   calibration_samples |-> n, calibrated |-> TRUE]
             ELSE [c EXCEPT !.baseline_consumption = sum,
                            !.calibration_samples = n]
    ELSE c

is_calibrated(c) == c.calibrated

get_baseline(c) == c.baseline_consumption

---------------------------------------------------------------------------
(* The state machine.                                                      *)

\* The object the constructor leaves; metrics is zeroed by memset.
Constructed(tflite, arena, t) ==
    [current_buffer_size |-> AUDIO_BUFFER_SIZE \div MIC_BUFFER_REDUCTION,
     current_sample_rate |-> MIC_LOW_POWER_SAMPLE_RATE,
     current_energy_mode |-> ENERGY_ULTRA_ECO,
     last_activity_time |-> t,
     last_voice_time |-> t,
     mic_active |-> FALSE,
     i2s_installed |-> FALSE,
     inference_skip_counter |-> 0,
     power_consumption_mw |-> 0,
     battery_voltage |-> 0,
     battery_level |-> BATTERY_FULL,
     voice_detected |-> FALSE,
     total_inferences |-> 0,
     skipped_inferences |-> 0,
     consecutive_silence |-> 0,
     audio_buffer |-> "alloc",
     preprocessed_audio |-> "alloc",
     tensor_arena |-> IF tflite THEN arena ELSE "none",
     interpreter |-> IF tflite THEN "uninit" ELSE "none",
     model_loaded |-> FALSE]

\* The task watchdog is not armed at power-on; wdt_fed is the time of its
\* latest reset.
PoweredOn(tflite) ==
    [tflite |-> tflite, drv_installed |-> FALSE, drv_rate |-> 0,
     wake_armed |-> FALSE, i2s_calls |-> <<>>, halt |-> "run",
     wdt_armed |-> FALSE, wdt_fed |-> 0]

\* The function statics of run() and should_process_audio, and
\* audio_processed_at: the time of the last cycle in which
\* should_process_audio let the pipeline run (-1: none yet), and
\* silence_run: the number of preprocessing passes without voice since the
\* last pass with voice.
Statics ==
    [last_battery_check |-> 0, last_energy_report |-> 0, last_audio_process |-> 0,
     audio_processed_at |-> -1, silence_run |-> 0]

\* The surroundings at power-on.
Surroundings ==
    [button : BOOLEAN, sound : Sounds, i2s : {"ok"}, invoke : {"ok"},
     changes : {MaxChanges}, next_change : {GridMs}]

NextGrid(t) == ((t \div GridMs) + 1) * GridMs

\* The world a step starts from: the calls of the previous step are forgotten.
World == [e |-> eng, h |-> [hw EXCEPT !.i2s_calls = <<>>]]

Installs(w) == \E i \in 1..Len(w.h.i2s_calls) : w.h.i2s_calls[i] = "install"

\* Whether a step from world w0 to w1 ran `delete interpreter` on a pointer
\* that was never assigned.
DeletedUnassigned(w0, w1) ==
    /\ w0.h.tflite
    /\ w0.e.interpreter = "uninit"
    /\ w0.e.current_energy_mode # ENERGY_DEEP_SLEEP
    /\ w1.e.current_energy_mode = ENERGY_DEEP_SLEEP

\* Where control is after a step that leaves world w.
After(w, next) == IF w.h.halt = "run" THEN next ELSE w.h.halt

\* The inputs the environment hands to the calls of one step.
Inputs == [NoInput EXCEPT !.button = env.button,
                          !.read = ReadResult(env.sound),
                          !.energy = Energy(env.sound),
                          !.i2s = env.i2s,
                          !.invoke = env.invoke]

InHorizon ==
    \/ now <= MaxTime
    \/ env.changes = MaxChanges /\ now <= LongTime

BatteryDue == now - st.last_battery_check > BATTERY_PERIOD_MS

\* A run() cycle that starts lets the grid instant it has reached go by.
CycleStarts ==
    env' = IF now >= env.next_change
           THEN [env EXCEPT !.next_change = NextGrid(now)]
           ELSE env

\* The helpers outside the engine, as their constructors and static
\* initialisers leave them.
NoAux ==
    [voltage |-> 0, level |-> BATTERY_FULL,
     gate_results |-> <<>>,
     opt |-> [optimization_counter |-> 0, restart |-> FALSE,
              heap_check |-> FALSE],
     opt_calls |-> 0,
     cal |-> [baseline_consumption |-> 0, calibration_samples |-> 0,
              calibrated |-> FALSE],
     cal_calls |-> 0, cal_high |-> 0,
     cap |-> [audio_buffer |-> [i \in 1..BufLen |-> 0], size |-> BufLen,
              ok |-> FALSE, samples_read |-> 0, energy |-> 0,
              read_energy |-> 0, stale |-> FALSE],
     inf |-> [preprocessed_audio |-> [i \in 1..BufLen |-> 0],
              input_tensor |-> [i \in 1..BufLen |-> 0],
              size |-> BufLen, invoked |-> FALSE]]

Init ==
    /\ \E tflite \in BOOLEAN, arena \in {"alloc", "null"} :
          /\ eng = Constructed(tflite, arena, 0)
          /\ hw = PoweredOn(tflite)
    /\ st = Statics
    /\ env \in Surroundings
    /\ io = NoInput
    /\ now = 0
    /\ pc = "init"
    /\ cycles = 0
    /\ aux = NoAux

\* One component of the surroundings changes.
EnvChange ==
    /\ pc = "run"
    /\ env.changes > 0
    /\ now <= MaxTime
    /\ now >= env.next_change
    /\ \E e \in [button : BOOLEAN, sound : Sounds, i2s : I2SResults,
                 invoke : {"ok", "fail"}] :
          /\ Cardinality({f \in {"button", "sound", "i2s", "invoke"} : e[f] # env[f]}) = 1
          /\ env' = [button |-> e.button, sound |-> e.sound, i2s |-> e.i2s,
                     invoke |-> e.invoke, changes |-> env.changes - 1,
                     next_change |-> NextGrid(now)]
    /\ UNCHANGED <<eng, hw, st, io, now, pc, cycles, aux>>

\* setup(): initialize() on the constructed engine.
Initialize ==
    /\ pc = "init"
    /\ \E adc \in AdcReadings, ub \in UBResults, setup \in SetupResults :
          LET in == [Inputs EXCEPT !.adc = adc, !.ub = ub, !.setup = setup]
              w == initialize(World, in)
          IN  /\ eng' = w.e
              /\ hw' = w.h
              /\ io' = [NoInput EXCEPT
                          !.adc = adc,
                          !.mode_before = eng.current_energy_mode,
                          !.ub = IF DeletedUnassigned(World, w) THEN ub ELSE "none",
                          !.setup = IF w.h.halt = "run" /\ w.h.tflite
                                       /\ eng.tensor_arena = "alloc"
                                    THEN setup ELSE "none"]
              /\ pc' = After(w, "run")
    /\ now' = now + SERIAL_SETTLE_MS
    /\ UNCHANGED <<st, env, cycles, aux>>

\* run(): the battery check, every 30 s.
RunBattery ==
    /\ pc = "run"
    /\ InHorizon
    /\ BatteryDue
    /\ \E adc \in AdcReadings, ub \in UBResults :
          LET in == [Inputs EXCEPT !.adc = adc, !.ub = ub]
              w == update_battery_status(World, in)
          IN  /\ eng' = w.e
              /\ hw' = w.h
              /\ io' = [NoInput EXCEPT
                          !.adc = adc,
                          !.mode_before = eng.current_energy_mode,
                          !.i2s = IF Installs(w) THEN in.i2s ELSE "none",
                          !.ub = IF DeletedUnassigned(World, w) THEN ub ELSE "none"]
              /\ pc' = After(w, "policy")
              /\ st' = IF w.h.halt = "run"
                       THEN [st EXCEPT !.last_battery_check = now]
                       ELSE st
    /\ CycleStarts
    /\ UNCHANGED <<now, cycles, aux>>

\* run(): manage_energy_modes(current_time).
RunPolicy ==
    /\ \/ pc = "policy" /\ env' = env
       \/ pc = "run" /\ InHorizon /\ ~BatteryDue /\ CycleStarts
    /\ \E ub \in UBResults :
          LET in == [Inputs EXCEPT !.ub = ub]
              w == manage_energy_modes(World, now, in)
          IN  /\ eng' = w.e
              /\ hw' = w.h
              /\ io' = [NoInput EXCEPT
                          !.button = in.button,
                          !.mode_before = eng.current_energy_mode,
                          !.voice_before = eng.voice_detected,
                          !.idle_time = now - eng.last_activity_time,
                          !.voice_idle_time = now - eng.last_voice_time,
                          !.i2s = IF Installs(w) THEN in.i2s ELSE "none",
                          !.ub = IF DeletedUnassigned(World, w) THEN ub ELSE "none"]
              /\ pc' = After(w, "pipeline")
    /\ UNCHANGED <<st, now, cycles, aux>>

\* run(): the audio pipeline, the energy report every 15 s and
\* adaptive_sleep(), up to the return to loop().
RunPipeline ==
    /\ pc = "pipeline"
    /\ LET in == Inputs
           due == should_process_audio(World, now, st.last_audio_process).ok
           mic == ensure_mic_active(World, in)
           c == smart_audio_capture(World, in)
           r == process_audio(World, now, st.last_audio_process, in)
           report == now - st.last_energy_report > REPORT_PERIOD_MS
           z == adaptive_sleep(r.w)
       IN  /\ eng' = r.w.e
           /\ hw' = r.w.h
           /\ st' = [st EXCEPT !.last_audio_process = r.last,
                               !.last_energy_report = IF report THEN now ELSE @,
                               !.audio_processed_at = IF due THEN now ELSE @,
                               !.silence_run =
                                  IF ~(due /\ c.ok) THEN @
                                  ELSE IF r.w.e.voice_detected THEN 0
                                  ELSE @ + 1]
           /\ io' = [NoInput EXCEPT
                       !.mode_before = eng.current_energy_mode,
                       !.voice_before = eng.voice_detected,
                       !.i2s = IF Installs(r.w) THEN in.i2s ELSE "none",
                       !.read = IF due /\ mic.ok
                                THEN ReadOutcome(mic.w, in) ELSE "none",
                       !.energy = IF due /\ c.ok THEN in.energy ELSE 0,
                       !.invoke = IF due /\ c.ok /\ r.w.e.voice_detected
                                     /\ hw.tflite /\ eng.model_loaded
                                  THEN in.invoke ELSE "none",
                       !.report_due = report,
                       !.process_gap =
                          IF due /\ eng.current_energy_mode # ENERGY_ACTIVE
                                 /\ st.audio_processed_at # -1
                          THEN now - st.audio_processed_at ELSE -1,
                       !.report = report /\ print_energy_report(r.w),
                       !.light_sleep = z.light]
           /\ now' = now + (IF due THEN c.ms ELSE 0) + z.ms
    /\ pc' = "run"
    /\ cycles' = cycles + 1
    /\ UNCHANGED <<env, aux>>

\* The program starts from the top: the armed button wakes the device from
\* deep sleep, a trap reboots it.
Restart ==
    /\ \/ pc = "asleep" /\ hw.wake_armed
       \/ pc = "crashed"
    /\ \E arena \in {"alloc", "null"} :
          eng' = Constructed(hw.tflite, arena, 0)
    /\ hw' = PoweredOn(hw.tflite)
    /\ st' = Statics
    /\ env' \in Surroundings
    /\ io' = NoInput
    /\ now' = 0
    /\ pc' = "init"
    /\ cycles' = 0
    /\ aux' = aux

Next ==
    \/ EnvChange
    \/ Initialize
    \/ RunBattery
    \/ RunPolicy
    \/ RunPipeline
    \/ Restart

Spec == Init /\ [][Next]_vars

---------------------------------------------------------------------------
(* UnitSpec: the operations that the claims describe one call at a time,   *)
(* each driven directly with inputs from a bounded set.  pc names the      *)
(* operation under exercise.                                               *)

\* Battery voltages in units of 1e-4 V: 2.80 V to 4.20 V in steps of 10 mV.
Voltages == {v \in 28000..42000 : v % 100 = 0}

Units == {"classifier", "gate", "watchdog", "optimizer", "calibrator",
          "capture", "inference"}

\* The unit's auxiliary state at its start; the audio buffer comes from
\* heap_caps_malloc, and the input tensor from the arena, with whatever the
\* memory held.
UnitAux(unit) ==
    IF unit = "capture"
    THEN {[NoAux EXCEPT !.cap.audio_buffer = b] :
             b \in [1..BufLen -> SampleValues]}
    ELSE IF unit = "inference"
    THEN {[NoAux EXCEPT !.inf.input_tensor = t] :
             t \in [1..BufLen -> SampleValues]}
    ELSE {NoAux}

\* The engine a unit starts from: the constructed one, for the gate in any
\* of the running modes.
UnitEngines(unit) ==
    IF unit = "gate"
    THEN {[Constructed(FALSE, "alloc", 0) EXCEPT !.current_energy_mode = m] :
            m \in ENERGY_ACTIVE..ENERGY_ULTRA_ECO}
    ELSE {Constructed(FALSE, "alloc", 0)}

UnitInit ==
    /\ pc \in Units
    /\ eng \in UnitEngines(pc)
    /\ hw = PoweredOn(FALSE)
    /\ st = Statics
    /\ env = [button |-> FALSE, sound |-> "silent", i2s |-> "ok",
              invoke |-> "ok", changes |-> 0, next_change |-> 0]
    /\ io = NoInput
    /\ now = 0
    /\ cycles = 0
    /\ aux \in UnitAux(pc)

\* update_battery_status's classification of a voltage.
Classify ==
    /\ pc = "classifier"
    /\ \E v \in Voltages :
          aux' = [aux EXCEPT !.voltage = v, !.level = BatteryLevelOf(v)]
    /\ UNCHANGED <<eng, hw, st, env, io, now, pc, cycles>>

\* One call of should_run_inference with the voice flag clear.
Gate ==
    /\ pc = "gate"
    /\ Len(aux.gate_results) < MaxGateCalls
    /\ ~eng.voice_detected
    /\ LET r == should_run_inference(World)
       IN  /\ eng' = r.w.e
           /\ aux' = [aux EXCEPT !.gate_results = Append(@, r.ok)]
    /\ UNCHANGED <<hw, st, env, io, now, pc, cycles>>

\* setup_energy_watchdog(), then feed_energy_watchdog() at a later time.
Watchdog ==
    /\ pc = "watchdog"
    /\ now < WATCHDOG_TIMEOUT_MS
    /\ \E dt \in {10000, 20000} :
          /\ now' = now + dt
          /\ hw' = IF hw.wdt_armed
                   THEN feed_energy_watchdog(hw, now')
                   ELSE setup_energy_watchdog(hw, now')
    /\ UNCHANGED <<eng, st, env, io, pc, cycles, aux>>

\* One call of dynamic_optimization(); opt_calls counts the calls made
\* since the device was first powered.
Optimize ==
    /\ pc = "optimizer"
    /\ aux.opt_calls < MaxOptCalls
    /\ aux' = [aux EXCEPT !.opt = dynamic_optimization(aux.opt),
                          !.opt_calls = @ + 1]
    /\ UNCHANGED <<eng, hw, st, env, io, now, pc, cycles>>

\* One call of EnergyCalibrator::add_sample; cal_calls counts the calls and
\* cal_high the 180 mW samples among the first CALIBRATION_SAMPLES of them.
AddSample ==
    /\ pc = "calibrator"
    /\ aux.cal_calls < MaxSamples
    /\ \E x \in PowerSamples :
          aux' = [aux EXCEPT
                    !.cal = add_sample(aux.cal, x),
                    !.cal_calls = @ + 1,
                    !.cal_high = IF aux.cal_calls < CALIBRATION_SAMPLES
                                    /\ x = 18000
                                 THEN @ + 1 ELSE @]
    /\ UNCHANGED <<eng, hw, st, env, io, now, pc, cycles>>

\* One capture of process_audio followed, when it succeeds, by the energy
\* sum of preprocessing.  read_energy is the energy of the whole samples
\* the read delivered; stale records that a position of the unread tail held
\* a nonzero sample before the call.
Capture ==
    /\ pc = "capture"
    /\ \E size \in CaptureSizes, result \in {"ok", "fail"} :
       \E bytes_read \in 0..(size * SAMPLE_BYTES) :
       \E data \in [1..((bytes_read + 1) \div SAMPLE_BYTES) -> SampleValues] :
          LET r == smart_audio_capture_buffer(aux.cap.audio_buffer, size,
                                              result, bytes_read, data)
          IN  aux' = [aux EXCEPT !.cap =
                        [audio_buffer |-> r.buf, size |-> size, ok |-> r.ok,
                         samples_read |-> r.samples_read,
                         energy |-> IF r.ok
                                    THEN preprocess_energy(r.buf, size)
                                    ELSE 0,
                         read_energy |-> IF r.ok
                                         THEN EnergySum(data, r.samples_read)
                                         ELSE 0,
                         stale |-> /\ r.ok
                                   /\ \E i \in (r.samples_read + 1)..size :
                                         aux.cap.audio_buffer[i] # 0]]
    /\ UNCHANGED <<eng, hw, st, env, io, now, pc, cycles>>

\* One voiced cycle with the model loaded: preprocessing of a captured
\* buffer with size active samples, then run_energy_inference up to Invoke.
Infer ==
    /\ pc = "inference"
    /\ \E size \in CaptureSizes, buf \in [1..BufLen -> SampleValues] :
          LET pre == preprocess_features(aux.inf.preprocessed_audio, buf, size)
          IN  aux' = [aux EXCEPT !.inf =
                        [preprocessed_audio |-> pre,
                         input_tensor |->
                            copy_features(aux.inf.input_tensor, pre, size),
                         size |-> size, invoked |-> TRUE]]
    /\ UNCHANGED <<eng, hw, st, env, io, now, pc, cycles>>

UnitNext ==
    \/ Classify
    \/ Gate
    \/ Watchdog
    \/ Optimize
    \/ AddSample
    \/ Capture
    \/ Infer

UnitSpec == UnitInit /\ [][UnitNext]_vars

---------------------------------------------------------------------------
(* QuietSpec: the program from power-on in surroundings that fall quiet    *)
(* (button released, no voice) once and for all, with no bound on time.    *)
(* The code reads the clock only in differences with the times it stored,  *)
(* so now is held at its value after initialize() and the stored times     *)
(* move back instead, no further than their thresholds need.  The phase    *)
(* of the 30 s battery check is not tracked: it may fall due in any cycle. *)

\* A stored time after d more milliseconds, seen from an unmoved now; ages
\* beyond cap are not told apart.
Earlier(stored, d, cap) ==
    IF now - (stored - d) > cap THEN now - cap ELSE stored - d

\* The battery holds its charge: every reading is the one taken at
\* power-on.
QuietAdc == {adc \in AdcReadings : BatteryVoltage(adc) = eng.battery_voltage}

QuietInit ==
    /\ \E tflite \in BOOLEAN, arena \in {"alloc", "null"} :
          /\ eng = Constructed(tflite, arena, 0)
          /\ hw = PoweredOn(tflite)
    /\ st = Statics
    /\ env \in [button : BOOLEAN, sound : Sounds, i2s : {"ok"}, invoke : {"ok"},
                changes : {1}, next_change : {0}]
    /\ io = NoInput
    /\ now = 0
    /\ pc = "init"
    /\ cycles = 0
    /\ aux = NoAux

\* The button is released and the voice ends, for good.
GoQuiet ==
    /\ env.changes = 1
    /\ pc # "init"
    /\ \E sound \in {"silent", "error"} :
          env' = [env EXCEPT !.button = FALSE, !.sound = sound, !.changes = 0]
    /\ UNCHANGED <<eng, hw, st, io, now, pc, cycles, aux>>

\* loop(): one call of run().  battery says whether the battery check falls
\* due in this cycle; the report, which only prints, is left out.
QuietCycle(battery) ==
    /\ pc = "run"
    /\ env.changes = 0 \/ cycles < QuietBy
    /\ \E adc \in QuietAdc, ub \in UBResults :
       \E in \in {[Inputs EXCEPT !.adc = adc, !.ub = ub]} :
       \E w1 \in {IF battery THEN update_battery_status(World, in) ELSE World} :
       \E w2 \in {IF w1.h.halt = "run"
                  THEN manage_energy_modes(w1, now, in) ELSE w1} :
       \E due \in {/\ w2.h.halt = "run"
                   /\ should_process_audio(w2, now, st.last_audio_process).ok} :
       \E r \in {IF w2.h.halt = "run"
                 THEN process_audio(w2, now, st.last_audio_process, in)
                 ELSE [w |-> w2, last |-> st.last_audio_process]} :
       \E ms \in {IF w2.h.halt # "run" THEN 0
                  ELSE (IF due THEN smart_audio_capture(w2, in).ms ELSE 0)
                       + adaptive_sleep(r.w).ms} :
          /\ eng' = [r.w.e EXCEPT
                       !.last_activity_time =
                          Earlier(@, ms, SILENCE_TIMEOUT_MS + 1),
                       !.last_voice_time =
                          Earlier(@, ms, DEEP_SLEEP_TIMEOUT_MS + 1)]
          /\ hw' = r.w.h
          /\ st' = [st EXCEPT
                      !.last_audio_process =
                         Earlier(r.last, ms, ProcessInterval(ENERGY_ULTRA_ECO))]
          /\ io' = [NoInput EXCEPT
                      !.button = in.button,
                      !.mode_before = eng.current_energy_mode,
                      !.voice_before = eng.voice_detected]
          /\ pc' = After(r.w, "run")
    /\ cycles' = IF cycles < QuietBy THEN cycles + 1 ELSE cycles
    /\ UNCHANGED <<env, now, aux>>

QuietNext ==
    \/ Initialize
    \/ GoQuiet
    \/ \E battery \in BOOLEAN : QuietCycle(battery)

\* loop() is called again whenever it returns, and the battery check keeps
\* falling due.
QuietSpec ==
    /\ QuietInit
    /\ [][QuietNext]_vars
    /\ WF_vars(Initialize)
    /\ WF_vars(\E battery \in BOOLEAN : QuietCycle(battery))
    /\ WF_vars(QuietCycle(TRUE))

---------------------------------------------------------------------------
(* Steps and scenarios the properties below speak about.                   *)

\* A step that evaluated the policy (manage_energy_modes).
IsPolicyStep == pc \in {"run", "policy"} /\ io'.idle_time >= 0

\* A step that sampled the battery (update_battery_status), in initialize()
\* or in run().
IsBatteryStep == pc \in {"init", "run"} /\ io'.adc # 0

\* A step that ran the audio pipeline of run() up to the return to loop().
IsPipelineStep == pc = "pipeline" /\ pc' = "run"

\* Nothing in the surroundings has changed since power-on.
Steady == env.changes = MaxChanges

\* The number of run() cycles of the voiced-signal scenario.
VoicedCycles == 20

---------------------------------------------------------------------------
(* Properties.                                                             *)

\* C1: when the policy is evaluated with the button released, the voice
\* flag clear and a voice-idle time over 5000 ms, the mode becomes
\* DEEP_SLEEP exactly when the battery level is LOW or CRITICAL, and
\* ULTRA_ECO otherwise.
C1_DeepSleepIffBatteryLow ==
    [][(/\ IsPolicyStep
        /\ ~env.button
        /\ ~eng.voice_detected
        /\ now - eng.last_voice_time > DEEP_SLEEP_TIMEOUT_MS)
       => IF eng.battery_level \in {BATTERY_LOW, BATTERY_CRITICAL}
          THEN eng'.current_energy_mode = ENERGY_DEEP_SLEEP
          ELSE eng'.current_energy_mode = ENERGY_ULTRA_ECO]_vars

\* C2 (as stated): the policy evaluation that follows a battery sample
\* leaves the mode at DEEP_SLEEP when the level is CRITICAL and at
\* ULTRA_ECO when it is LOW.
C2_PolicyFollowsBattery ==
    [][(IsPolicyStep /\ io.adc # 0)
       => /\ eng.battery_level = BATTERY_CRITICAL
                => eng'.current_energy_mode = ENERGY_DEEP_SLEEP
          /\ eng.battery_level = BATTERY_LOW
                => eng'.current_energy_mode = ENERGY_ULTRA_ECO]_vars

\* C2 (amended): the battery sample itself, whatever the mode and the
\* timestamps were, requests DEEP_SLEEP on a CRITICAL level, after which no
\* policy is evaluated, and leaves the mode at ULTRA_ECO on a LOW level,
\* handing on to the cycle's policy evaluation.
C2_BatterySampleSelects ==
    [][IsBatteryStep
       => /\ eng'.battery_level = BATTERY_CRITICAL
                => /\ eng'.current_energy_mode = ENERGY_DEEP_SLEEP
                   /\ pc' \in {"asleep", "crashed"}
          /\ eng'.battery_level = BATTERY_LOW
                => /\ eng'.current_energy_mode = ENERGY_ULTRA_ECO
                   /\ pc' \in {"run", "policy"}]_vars

\* C2 witness: a LOW sample taken by run() while the engine was in ACTIVE
\* or BALANCED has left it in ULTRA_ECO.
C2_Witness ==
    /\ pc = "policy"
    /\ io.adc # 0
    /\ io.mode_before \in {ENERGY_ACTIVE, ENERGY_BALANCED}
    /\ eng.battery_level = BATTERY_LOW
    /\ eng.current_energy_mode = ENERGY_ULTRA_ECO

\* C3: every run() cycle whose capture delivered a buffer either runs the
\* inference (counted in total_inferences when it succeeds) or counts a
\* skipped inference.
C3_CaptureCountsAsCycle ==
    [][(/\ IsPipelineStep
        /\ io'.read = "full"
        /\ env.invoke = "ok")
       => \/ eng'.total_inferences = eng.total_inferences + 1
          \/ eng'.skipped_inferences = eng.skipped_inferences + 1]_vars

C5_StepUpInDetectingCycle ==
    [][(/\ IsPipelineStep
        /\ ~env.button
        /\ eng.current_energy_mode = ENERGY_ULTRA_ECO
        /\ ~eng.voice_detected
        /\ eng'.voice_detected)
       => eng'.current_energy_mode = ENERGY_BALANCED]_vars

\* C5 (amended): the run() call whose preprocessing detects voice in
\* ULTRA_ECO ends with the mode still at ULTRA_ECO; the step to BALANCED is
\* made by the next policy evaluation that finds the button released.
C5_StepUpInNextPolicy ==
    [][/\ (/\ IsPipelineStep
           /\ eng.current_energy_mode = ENERGY_ULTRA_ECO
           /\ ~eng.voice_detected
           /\ eng'.voice_detected)
          => eng'.current_energy_mode = ENERGY_ULTRA_ECO
       /\ (/\ IsPolicyStep
           /\ ~env.button
           /\ eng.voice_detected
           /\ eng.current_energy_mode = ENERGY_ULTRA_ECO)
          => /\ eng'.current_energy_mode = ENERGY_BALANCED
             /\ pc' = "pipeline"]_vars

\* C5 witness: the policy evaluation of the second run() call has stepped
\* from ULTRA_ECO to BALANCED on the voice the first call detected.
C5_Witness ==
    /\ pc = "pipeline"
    /\ cycles = 1
    /\ ~io.button
    /\ io.voice_before
    /\ io.mode_before = ENERGY_ULTRA_ECO
    /\ eng.total_inferences = 1
    /\ eng.current_energy_mode = ENERGY_BALANCED

\* C6: a policy evaluation that finds the button held leaves the mode at
\* ACTIVE and last_activity_time at the current time and does nothing
\* else: last_voice_time, the voice flag and the battery level are
\* unchanged and the engine goes on to the pipeline.
C6_ButtonForcesActive ==
    [][(IsPolicyStep /\ env.button)
       => /\ eng'.current_energy_mode = ENERGY_ACTIVE
          /\ eng'.last_activity_time = now
          /\ eng'.last_voice_time = eng.last_voice_time
          /\ eng'.voice_detected = eng.voice_detected
          /\ eng'.battery_level = eng.battery_level
          /\ pc' = "pipeline"]_vars

\* C6 witness: the button branch has fired with the voice flag clear and a
\* voice-idle time past the deep-sleep timeout.
C6_Witness ==
    /\ pc = "pipeline"
    /\ io.button
    /\ ~io.voice_before
    /\ io.voice_idle_time > DEEP_SLEEP_TIMEOUT_MS
    /\ eng.current_energy_mode = ENERGY_ACTIVE
    /\ eng.last_activity_time = now

\* C7: a policy evaluation that finds the button released and the voice
\* flag set leaves last_voice_time at the current time, the mode at
\* BALANCED if it was ECO or ULTRA_ECO and unchanged if it was ACTIVE or
\* BALANCED, and fires neither timeout branch.
C7_VoiceKeepsAwake ==
    [][(IsPolicyStep /\ ~env.button /\ eng.voice_detected)
       => /\ eng'.last_voice_time = now
          /\ eng'.last_activity_time = eng.last_activity_time
          /\ eng'.current_energy_mode =
                IF eng.current_energy_mode \in {ENERGY_ECO, ENERGY_ULTRA_ECO}
                THEN ENERGY_BALANCED
                ELSE eng.current_energy_mode
          /\ pc' = "pipeline"]_vars

\* C7 witness: the voice branch has stepped up from ECO.
C7_Witness ==
    /\ pc = "pipeline"
    /\ ~io.button
    /\ io.voice_before
    /\ io.mode_before = ENERGY_ECO
    /\ eng.current_energy_mode = ENERGY_BALANCED
    /\ eng.last_voice_time = now

\* C8: a step of the running program that changes the mode to one other
\* than DEEP_SLEEP leaves sample rate, buffer size and power at the row of
\* the table for that mode.
C8_ModeTable ==
    [][(/\ pc \notin {"asleep", "crashed"}
        /\ eng'.current_energy_mode # eng.current_energy_mode
        /\ eng'.current_energy_mode # ENERGY_DEEP_SLEEP)
       => <<eng'.current_sample_rate, eng'.current_buffer_size,
            eng'.power_consumption_mw>> =
          CASE eng'.current_energy_mode = ENERGY_ACTIVE -> <<16000, 1024, 180>>
            [] eng'.current_energy_mode = ENERGY_BALANCED -> <<16000, 512, 120>>
            [] eng'.current_energy_mode = ENERGY_ECO -> <<8000, 256, 60>>
            [] eng'.current_energy_mode = ENERGY_ULTRA_ECO -> <<8000, 128, 25>>]_vars

\* C8 witness: set_energy_mode(ULTRA_ECO) has been applied to an engine in
\* ACTIVE or BALANCED.
C8_Witness ==
    /\ io.mode_before \in {ENERGY_ACTIVE, ENERGY_BALANCED}
    /\ eng.current_energy_mode = ENERGY_ULTRA_ECO
    /\ eng.current_buffer_size = 128

\* C9: the steps that call set_energy_mode with the current mode (the
\* button branch in ACTIVE, a LOW battery sample in ULTRA_ECO, the end of
\* initialize()) leave mode, sample rate, buffer size and power unchanged
\* and issue no driver uninstall or install.
C9_SameModeNoOp ==
    [][(\/ IsPolicyStep /\ env.button /\ eng.current_energy_mode = ENERGY_ACTIVE
        \/ /\ IsBatteryStep
           /\ eng'.battery_level = BATTERY_LOW
           /\ eng.current_energy_mode = ENERGY_ULTRA_ECO
        \/ pc = "init" /\ pc' = "run")
       => /\ eng'.current_energy_mode = eng.current_energy_mode
          /\ eng'.current_sample_rate = eng.current_sample_rate
          /\ eng'.current_buffer_size = eng.current_buffer_size
          /\ eng'.power_consumption_mw = eng.power_consumption_mw
          /\ eng'.mic_active = eng.mic_active
          /\ hw'.i2s_calls = <<>>
          /\ hw'.drv_installed = hw.drv_installed]_vars

\* C9 witness: the button branch has called set_energy_mode(ACTIVE) on an
\* engine in ACTIVE whose microphone is active.
C9_Witness ==
    /\ pc = "pipeline"
    /\ io.button
    /\ io.mode_before = ENERGY_ACTIVE
    /\ eng.mic_active
    /\ hw.drv_installed
    /\ hw.i2s_calls = <<>>

\* C10: a step that enters DEEP_SLEEP leaves the device suspended with the
\* microphone driver released if the microphone was active, both buffers
\* freed and, with the inference engine linked, the arena freed and no
\* live interpreter.
C10_DeepSleepReleasesAndSuspends ==
    [][(/\ eng.current_energy_mode # ENERGY_DEEP_SLEEP
        /\ eng'.current_energy_mode = ENERGY_DEEP_SLEEP)
       => /\ pc' = "asleep"
          /\ eng.mic_active => ~hw'.drv_installed
          /\ eng'.audio_buffer = "freed"
          /\ eng'.preprocessed_audio = "freed"
          /\ hw.tflite => /\ eng'.tensor_arena \in {"freed", "null"}
                          /\ eng'.interpreter # "created"]_vars

\* The voltages of the classifier's table, in units of 1e-4 V.
TableVoltages ==
    <<41000, 40000, 39000, 37100, 37000, 35000, 33100, 33000, 30000, 29000>>

\* C11 (as stated): the classifier maps 4.1, 4.0, 3.9, 3.71, 3.7, 3.5, 3.31,
\* 3.3, 3.0, 2.9 V to FULL, GOOD, GOOD, GOOD, GOOD, LOW, LOW, LOW, CRITICAL,
\* CRITICAL.
C11_ClassifierTable ==
    pc = "classifier"
    => \A i \in 1..10 :
          aux.voltage = TableVoltages[i]
          => aux.level =
                <<BATTERY_FULL, BATTERY_GOOD, BATTERY_GOOD, BATTERY_GOOD,
                  BATTERY_GOOD, BATTERY_LOW, BATTERY_LOW, BATTERY_LOW,
                  BATTERY_CRITICAL, BATTERY_CRITICAL>>[i]

\* C11 (amended): the classifier maps 4.1, 4.0, 3.9, 3.71, 3.7, 3.5, 3.31,
\* 3.3, 3.0, 2.9 V to FULL, GOOD, GOOD, GOOD, LOW, LOW, LOW, CRITICAL,
\* CRITICAL, CRITICAL: a voltage equal to a breakpoint falls in the band
\* below it.
C11_ClassifierTableStrict ==
    pc = "classifier"
    => \A i \in 1..10 :
          aux.voltage = TableVoltages[i]
          => aux.level =
                <<BATTERY_FULL, BATTERY_GOOD, BATTERY_GOOD, BATTERY_GOOD,
                  BATTERY_LOW, BATTERY_LOW, BATTERY_LOW, BATTERY_CRITICAL,
                  BATTERY_CRITICAL, BATTERY_CRITICAL>>[i]

\* C11 witness: 3.7 V has been classified, as LOW.
C11_Witness ==
    /\ pc = "classifier"
    /\ aux.voltage = 37000
    /\ aux.level = BATTERY_LOW

\* C12: with the voice flag clear, successive calls of the inference gate
\* in a mode other than ACTIVE answer false, false, true, repeatedly, and
\* leave the skip counter at the number of calls modulo 3 (0 after every
\* true); in ACTIVE every call answers true.
C12_GatePattern ==
    pc = "gate"
    => LET n == Len(aux.gate_results)
       IN  IF eng.current_energy_mode = ENERGY_ACTIVE
           THEN \A i \in 1..n : aux.gate_results[i]
           ELSE /\ \A i \in 1..n : aux.gate_results[i] = (i % 3 = 0)
                /\ eng.inference_skip_counter = n % 3

\* C12 witness: six calls in ECO have answered false, false, true, false,
\* false, true.
C12_Witness ==
    /\ pc = "gate"
    /\ eng.current_energy_mode = ENERGY_ECO
    /\ aux.gate_results = <<FALSE, FALSE, TRUE, FALSE, FALSE, TRUE>>
    /\ eng.inference_skip_counter = 0

\* C13: while the program runs (after initialize() has returned), the task
\* watchdog is armed and its latest feed is at most 30 s old.
C13_WatchdogArmedAndFed ==
    pc \in {"run", "policy", "pipeline"}
    => /\ hw.wdt_armed
       /\ now - hw.wdt_fed <= WATCHDOG_TIMEOUT_MS

\* C14 (as stated): the counter of dynamic_optimization runs freely, one
\* increment per call, and a call that brings it to a multiple of 100
\* makes both the restart and the heap check.
C14_BothChecksFire ==
    (pc = "optimizer" /\ aux.opt_calls > 0)
    => /\ aux.opt.optimization_counter = aux.opt_calls
       /\ aux.opt_calls % 100 = 0
             => aux.opt.restart /\ aux.opt.heap_check

\* C14 (amended): the counter counts the calls since the program last
\* started; the 50th call after a start checks the free heap, the 100th
\* forces the restart and nothing else: it makes no heap check and leaves
\* the counter at 0 for the program started anew.
C14_RestartPreempts ==
    (pc = "optimizer" /\ aux.opt_calls > 0)
    => /\ aux.opt.optimization_counter = aux.opt_calls % 100
       /\ aux.opt.restart <=> aux.opt_calls % 100 = 0
       /\ aux.opt.heap_check <=> aux.opt_calls % 100 = 50
       /\ ~(aux.opt.restart /\ aux.opt.heap_check)

\* C14 witness: the 100th call has restarted the program without a heap
\* check.
C14_Witness ==
    /\ pc = "optimizer"
    /\ aux.opt_calls = 100
    /\ aux.opt.restart
    /\ ~aux.opt.heap_check
    /\ aux.opt.optimization_counter = 0

\* C15: is_calibrated() is true exactly from the 100th call of add_sample
\* on; from then on the sample count stays 100 and the baseline stays the
\* mean of the first 100 samples.
C15_CalibratesAtHundred ==
    pc = "calibrator"
    => /\ is_calibrated(aux.cal) <=> aux.cal_calls >= 100
       /\ aux.cal_calls >= 100
             => /\ aux.cal.calibration_samples = 100
                /\ get_baseline(aux.cal) * 100 =
                      aux.cal_high * 18000 + (100 - aux.cal_high) * 2500

\* C15 witness: three samples after the 100th have been added to a
\* calibrator whose first 100 samples were mixed.
C15_Witness ==
    /\ pc = "calibrator"
    /\ aux.cal_calls = 103
    /\ aux.cal_high = 40
    /\ is_calibrated(aux.cal)
    /\ get_baseline(aux.cal) = 8700

\* C16: get_baseline() is 0 as long as calibration has not completed.
C16_BaselineZeroUntilCalibrated ==
    (pc = "calibrator" /\ ~is_calibrated(aux.cal))
    => get_baseline(aux.cal) = 0

\* C17: after a successful capture that read fewer samples than
\* current_buffer_size, every buffer position from the number of samples
\* read up to current_buffer_size is 0, and the energy sum of the following
\* preprocessing pass is that of the samples read alone.
C17_ShortCaptureZeroTail ==
    (pc = "capture" /\ aux.cap.ok /\ aux.cap.samples_read < aux.cap.size)
    => /\ \A i \in (aux.cap.samples_read + 1)..aux.cap.size :
             aux.cap.audio_buffer[i] = 0
       /\ aux.cap.energy = aux.cap.read_energy

\* C17 witness: a short capture over a buffer whose tail held nonzero
\* samples of an earlier capture, with nonzero samples read.
C17_Witness ==
    /\ pc = "capture"
    /\ aux.cap.ok
    /\ aux.cap.size = BufLen
    /\ aux.cap.samples_read = 1
    /\ aux.cap.stale
    /\ aux.cap.read_energy = 9
    /\ aux.cap.energy = 9

\* C18: the energy report is emitted, and its efficiency quotient
\* evaluated, only when total_inferences and skipped_inferences are not
\* both zero.
C18_NoReportWithoutCounts ==
    io.report => eng.total_inferences + eng.skipped_inferences > 0

\* C18 witness: the 15 s report came due in a cycle with both counters zero
\* and nothing was emitted.
C18_Witness ==
    /\ io.report_due
    /\ ~io.report
    /\ eng.total_inferences = 0
    /\ eng.skipped_inferences = 0

\* C19: whenever the microphone is active, an I2S driver is installed and
\* its sample rate is current_sample_rate.
C19_ActiveMicHasMatchingDriver ==
    eng.mic_active
    => /\ hw.drv_installed
       /\ hw.drv_rate = eng.current_sample_rate

\* C20: once initialize() has returned and while the mode is not DEEP_SLEEP,
\* sample rate, buffer size and power are the table row of the current
\* mode; right after initialization that is ULTRA_ECO with 8000 Hz, 128
\* samples and 25 mW.
C20_ParametersFollowMode ==
    (/\ pc \in {"run", "policy", "pipeline"}
     /\ eng.current_energy_mode # ENERGY_DEEP_SLEEP)
    => <<eng.current_sample_rate, eng.current_buffer_size,
         eng.power_consumption_mw>> =
       CASE eng.current_energy_mode = ENERGY_ACTIVE -> <<16000, 1024, 180>>
         [] eng.current_energy_mode = ENERGY_BALANCED -> <<16000, 512, 120>>
         [] eng.current_energy_mode = ENERGY_ECO -> <<8000, 256, 60>>
         [] eng.current_energy_mode = ENERGY_ULTRA_ECO -> <<8000, 128, 25>>

\* C21: outside ACTIVE, should_process_audio lets a cycle process audio only
\* when at least the mode's interval has passed since audio was last
\* processed, in whatever mode that was.
C21_IntervalSinceLastProcessing ==
    io.process_gap # -1 => io.process_gap >= ProcessInterval(io.mode_before)

\* The pipeline step issued i2s_read and the read failed or gave no bytes.
FailedRead == IsPipelineStep /\ io'.read \in {"error", "zero"}

\* What a failed read leaves as it was.
FailedReadKeeps ==
    /\ eng'.voice_detected = eng.voice_detected
    /\ eng'.consecutive_silence = eng.consecutive_silence
    /\ eng'.total_inferences = eng.total_inferences
    /\ eng'.skipped_inferences = eng.skipped_inferences
    /\ eng'.inference_skip_counter = eng.inference_skip_counter
    /\ eng'.last_activity_time = eng.last_activity_time
    /\ cycles' = cycles + 1
    /\ io'.report = (io'.report_due /\ print_energy_report(World))

\* C22 as stated: a cycle whose read fails or gives no bytes runs no later
\* stage, leaves the counters, the voice flag, last_activity_time and the
\* microphone's installed state unchanged, and goes on to the report, the
\* sleep and the next cycle.
C22_FailedReadChangesNothing ==
    [][FailedRead
       => /\ FailedReadKeeps
          /\ eng'.mic_active = eng.mic_active
          /\ eng'.i2s_installed = eng.i2s_installed
          /\ hw'.drv_installed = hw.drv_installed]_vars

\* C22 amended: as above, except that the microphone is left as
\* ensure_mic_active left it before the read: active, with the driver state
\* untouched if it was active already and the driver freshly installed if
\* it was not.
C22_FailedReadAbortsCycle ==
    [][FailedRead
       => /\ FailedReadKeeps
          /\ eng'.mic_active
          /\ eng.mic_active
                => /\ eng'.i2s_installed = eng.i2s_installed
                   /\ hw'.drv_installed = hw.drv_installed
                   /\ hw'.i2s_calls = <<>>
          /\ ~eng.mic_active
                => /\ eng'.i2s_installed
                   /\ hw'.drv_installed]_vars

\* C22 witness: a read that gave no bytes after an earlier silent pass, with
\* the microphone still active for the retry.
C22_Witness ==
    /\ pc = "run"
    /\ io.read = "zero"
    /\ eng.mic_active
    /\ eng.consecutive_silence > 0
    /\ cycles > 2

\* The pipeline step ran a preprocessing pass, with or without voice.
VoicedPass == IsPipelineStep /\ io'.read = "full" /\ io'.energy > VOICE_DETECTION_THRESHOLD
SilentPass == IsPipelineStep /\ io'.read = "full" /\ io'.energy <= VOICE_DETECTION_THRESHOLD

\* The pipeline step attempts a capture with the microphone inactive.
LazyCapture ==
    /\ IsPipelineStep
    /\ ~eng.mic_active
    /\ should_process_audio(World, now, st.last_audio_process).ok

\* C23: a pass with voice resets consecutive_silence and leaves the
\* microphone active with its driver; a pass without voice increments the
\* counter and, when the new value exceeds 10, ends with the microphone
\* inactive and the driver uninstalled; the next capture attempt installs
\* the driver at current_sample_rate before it reads.
C23_SilenceShutsMicDown ==
    [][/\ VoicedPass
          => /\ eng'.consecutive_silence = 0
             /\ eng'.mic_active
             /\ hw'.drv_installed
             /\ "uninstall" \notin {hw'.i2s_calls[i] : i \in DOMAIN hw'.i2s_calls}
                   \/ ~eng.mic_active
       /\ SilentPass
          => /\ eng'.consecutive_silence = Uint8(eng.consecutive_silence + 1)
             /\ eng'.consecutive_silence > SILENCE_MIC_OFF
                   => /\ ~eng'.mic_active
                      /\ ~eng'.i2s_installed
                      /\ ~hw'.drv_installed
             /\ eng'.consecutive_silence <= SILENCE_MIC_OFF
                   => eng'.mic_active /\ hw'.drv_installed
       /\ (LazyCapture /\ io'.read # "none")
          => /\ hw'.i2s_calls # <<>>
             /\ hw'.i2s_calls[1] = "install"
             /\ io'.read # "error"
             /\ hw'.drv_rate = eng'.current_sample_rate]_vars

\* C24: consecutive_silence is the number of consecutive preprocessing
\* passes without voice since the last pass with voice, however long the
\* run.
C24_SilenceCounterIsRunLength ==
    pc \in {"run", "policy", "pipeline"}
    => eng.consecutive_silence = st.silence_run

\* C25: whenever the device is in deep sleep the button wake-up has been
\* enabled, so a button press can resume it.
C25_WakeArmedBeforeDeepSleep ==
    pc = "asleep" => hw.wake_armed

\* C26: in the running program an active microphone has its I2S driver
\* installed, and the i2s_installed flag is true exactly when a driver is
\* installed.
C26_BookkeepingMatchesDriver ==
    pc \in {"run", "policy", "pipeline"}
    => /\ eng.mic_active => hw.drv_installed
       /\ eng.i2s_installed <=> hw.drv_installed

\* C27: once the button is released for good and no capture yields voice
\* any more, the engine eventually is in ULTRA_ECO or DEEP_SLEEP.
C27_QuietLeadsToLowPower ==
    (env.changes = 0 /\ ~env.button /\ env.sound # "voice")
    ~> (eng.current_energy_mode \in {ENERGY_ULTRA_ECO, ENERGY_DEEP_SLEEP})

\* C28: no step of the program runs `delete interpreter` on an interpreter
\* pointer that was never assigned.
C28_NoDeleteOfUnassigned ==
    io.ub = "none"

\* C29: in the running program the mode's ordinal goes down only in a
\* policy evaluation, either with the button held (to ACTIVE) or with the
\* button released and the voice flag set (from ECO or ULTRA_ECO to
\* BALANCED); every other step, battery sampling included, keeps or raises
\* it.
C29_ModeLowersOnlyByButtonOrVoice ==
    [][(/\ pc \in {"run", "policy", "pipeline"}
        /\ eng'.current_energy_mode < eng.current_energy_mode)
       => /\ IsPolicyStep
          /\ \/ /\ env.button
                /\ eng'.current_energy_mode = ENERGY_ACTIVE
             \/ /\ ~env.button
                /\ eng.voice_detected
                /\ eng.current_energy_mode \in {ENERGY_ECO, ENERGY_ULTRA_ECO}
                /\ eng'.current_energy_mode = ENERGY_BALANCED]_vars

\* C29 witness: the button has taken the engine from ECO, where the silence
\* timeout had stepped it down, to ACTIVE.
C29_Witness ==
    /\ pc = "pipeline"
    /\ io.button
    /\ io.mode_before = ENERGY_ECO
    /\ eng.current_energy_mode = ENERGY_ACTIVE

\* C30: when a real inference is invoked, the input tensor equals the
\* feature buffer of that cycle, zeros beyond the active samples included.
C30_TensorEqualsFeatures ==
    (pc = "inference" /\ aux.inf.invoked)
    => aux.inf.input_tensor = aux.inf.preprocessed_audio

====
